---- MODULE Spec2Model ----
(***************************************************************************)
(* Bill lifecycle of the clinic backend (BillController.ts): createBill,   *)
(* removeBillItem and confirm, run by concurrent request handlers over two *)
(* stores, the billing store (bills, bill_items) and the inventory store   *)
(* (stock).  Every `await` on a store is a point where another request can *)
(* run; statements on the billing store are buffered in the handler's      *)
(* transaction and become visible at COMMIT, statements on the inventory   *)
(* store are sent outside any transaction and are visible at once.         *)
(***************************************************************************)
EXTENDS Integers, Sequences, FiniteSets, TLC

VARIABLES
  stock,       \* inventory store: stock_id -> amount
  bills,       \* billing store, committed: bill_id -> bills row
  items,       \* billing store, committed: bill_item_id -> bill_items row
  nextBillId,  \* sequence behind bills.bill_id
  nextItemId,  \* sequence behind bill_items.bill_item_id
  req,         \* per handler: position, request, locals, open transaction,
               \* response, and the stores as they were when it started
  started,     \* number of requests received so far
  pre,         \* history: bill_item_id -> the stock row, its amount and its
               \* write count just before the item's reservation, and the
               \* number of releases of the item so far
  ver,         \* history: stock_id -> number of writes to the row
  expense,     \* billing store, committed: id -> expense row
  nextExpenseId \* sequence behind expense.id

vars == <<stock, bills, items, nextBillId, nextItemId, req, started, pre, ver,
          expense, nextExpenseId>>

(* ---------------------------------------------------------------- bounds *)
\* number of requests the model starts in one behaviour
MaxRequests == 3
\* longest items list of a createBill request
MaxItems == 2

Procs == {1, 2}

(* ------------------------------------------------ values of the program *)
\* JS NaN (also what a missing numeric field becomes in arithmetic); an
\* integer no reachable amount takes
NaN == -1000000
\* SQL NULL / JS falsy id
NoId == 0
\* SQL NULL / JS falsy text
NoText == ""

MsgItemsRequired == "At least one bill item is required."
MsgStockIdRequired == "Stock ID is required for product items."
MsgStockNotFound == "Stock with ID not found."
MsgInsufficient == "Insufficient stock for stock ID."
MsgItemNotFound == "Bill item with ID not found"
MsgNoPending == "No pending bill items found to confirm"
MsgBillCreated == "Bill created successfully"
MsgRemoved == "Bill item removed and stock updated"
MsgConfirmed == "Bill confirmed successfully"
MsgDbError == "invalid input syntax"
MsgInvalidItemId == "Invalid bill_item_id"
MsgInvalidBillId == "Invalid or missing bill_id"
MsgBillNotFound == "Bill not found"
MsgNoTopSelling == "No top selling stocks found."
MsgStockAbsent == "Stock not found"
MsgNoStocksForDrug == "No stocks found for this drug"
MsgQuantityInvalid == "Quantity must be a valid number."
MsgTotalInvalid == "Total price must be a valid number."
MsgExpenseCreated == "Expense created successfully"
MsgExpenseUpdated == "Expense updated successfully"
MsgExpenseDeleted == "Expense deleted successfully"
MsgExpenseNotFound == "Expense not found"

\* the inventory store: stock rows (stock_id -> amount) and their prices
StockIds == {5, 6}
UnitPrice == (5 :> 50) @@ (6 :> 60)
InitAmount == (5 :> 10) @@ (6 :> 1)

\* status a bill_items row gets when the INSERT names none
DefaultStatus == "pending"

(* ------------------------------------------------------ request inputs *)
Item(sid, q, price, custom, svc) ==
  [stock_id |-> sid, quantity |-> q, price |-> price, customPrice |-> custom,
   service |-> svc]

ItemShapes ==
  { Item(5, 2, NaN, 0, NoText),            \* {stock_id:5, quantity:2}
    Item(6, 1, 60, 0, NoText),             \* catalog item, client sends the price
    Item(7, 1, 10, 0, NoText),             \* unknown stock_id
    Item(5, 1, 50, 80, NoText),            \* catalog item with customPrice
    Item(NoId, 1, 200, 0, "Consultation"), \* {service, price, quantity}
    Item(NoId, 2, 500, 0, "Surgery"),
    Item(5, 1, 100, 0, "Dressing") }       \* service label and a stock_id

ItemLists == UNION { [1..n -> ItemShapes] : n \in 0..MaxItems }

\* the shapes sent by the requests that run concurrently
ConcItemShapes ==
  { Item(5, 2, NaN, 0, NoText),
    Item(6, 1, 60, 0, NoText),
    Item(7, 1, 10, 0, NoText),
    Item(NoId, 1, 200, 0, "Consultation") }

ConcItemLists == UNION { [1..n -> ConcItemShapes] : n \in 0..MaxItems }

\* every shape, with the two whose INSERT or check cannot succeed for sure
AllItemShapes ==
  ItemShapes \cup
  { Item(NoId, 1, 10, 0, NoText),          \* neither service nor stock_id
    Item(NoId, 1, NaN, 0, "Checkup") }     \* service without a price

AllItemLists == UNION { [1..n -> AllItemShapes] : n \in 0..MaxItems }

\* catalog items whose quantity is positive, zero and negative
QtyItemShapes ==
  { Item(6, 1, 60, 0, NoText),
    Item(6, 0, 60, 0, NoText),
    Item(5, -1, 50, 0, NoText) }

QtyItemLists == UNION { [1..n -> QtyItemShapes] : n \in 0..MaxItems }

Discounts == {0, 10}

(* --------------------------------------------------- JS / SQL arithmetic *)
JsMul(a, b) == IF a = NaN \/ b = NaN THEN NaN ELSE a * b
JsAdd(a, b) == IF a = NaN \/ b = NaN THEN NaN ELSE a + b

\* a || b on numbers
JsOr(a, b) == IF a = 0 \/ a = NaN THEN b ELSE a


\* totalAmount of createBill: reduce over the request's items
RECURSIVE TotalAmountFrom(_, _)
TotalAmountFrom(its, k) ==
  IF k > Len(its) THEN 0
  ELSE JsAdd(JsMul(JsOr(its[k].customPrice, its[k].price), its[k].quantity),
             TotalAmountFrom(its, k + 1))

TotalAmount(its) == TotalAmountFrom(its, 1)

\* the validation left out
NoItems_m(its) == FALSE

\* createBill's validation of a list that is present: `items.length === 0`
NoItems(its) == Len(its) = 0

\* the item is a free-form service (JS: `service` truthy)
IsService(it) == it.service # NoText

\* the stock check off by one
Insufficient_m(amount, quantity) == amount + 1 < quantity

\* the stock check of createBill
Insufficient(amount, quantity) == amount < quantity

\* the UPDATE left out
Reserve_m(amount, quantity) == amount

\* UPDATE stock SET amount = amount - $1
Reserve(amount, quantity) == amount - quantity

\* the release adds one unit, not the item's quantity
Release_m(amount, quantity) == amount + 1

\* UPDATE stock SET amount = amount + $1
Release(amount, quantity) == amount + quantity

\* the stock_id stored whether or not the item is a service
ItemStockId_m(it) == it.stock_id

\* stock_id column of the inserted bill item
ItemStockId(it) == IF IsService(it) THEN NoId ELSE it.stock_id

\* price a bill item's subtotal is computed from
BillItemPrice(it) == IF IsService(it) THEN it.price ELSE UnitPrice[it.stock_id]

\* the row createBill inserts into bill_items
BillItemRow(bid, it) ==
  [bill_id |-> bid, stock_id |-> ItemStockId(it), quantity |-> it.quantity,
   subtotal |-> JsMul(BillItemPrice(it), it.quantity),
   service |-> it.service, custom_price |-> JsOr(it.customPrice, 0),
   status |-> DefaultStatus]

\* ids of the bill items a `WHERE status = 'pending'` sees
PendingIds(its) == { i \in DOMAIN its : its[i].status = "pending" }

\* totalAmount of confirm: reduce over the selected rows
RECURSIVE SumSubtotal(_, _)
SumSubtotal(its, ids) ==
  IF ids = {} THEN 0
  ELSE LET i == CHOOSE x \in ids : TRUE
       IN JsAdd(its[i].subtotal, SumSubtotal(its, ids \ {i}))

\* the discount taken as an amount, not as a percentage
Discounted_m(total, discount) ==
  IF total = NaN THEN NaN ELSE total - discount

\* discountedAmount of confirm
Discounted(total, discount) ==
  IF total = NaN THEN NaN ELSE total - (total * discount) \div 100

\* the guard left out
NothingToConfirm_m(ids) == FALSE

\* confirm's guard on the selected rows
NothingToConfirm(ids) == ids = {}

\* the UPDATE of confirm applied to one row
ConfirmRow(row, bid) ==
  IF row.status = "pending"
  THEN [row EXCEPT !.bill_id = bid, !.status = "confirmed"]
  ELSE row

\* a statement binding NaN is accepted by a numeric column and rejected by
\* an integer one; the schema is not part of the sources
DbAccepts(v) == IF v = NaN THEN BOOLEAN ELSE {TRUE}

\* a ROLLBACK that keeps what the transaction wrote
Rollback_m(committed, written) == committed @@ written

\* the table after ROLLBACK: the transaction's rows are discarded
Rollback(committed, written) == committed

(* ------------------------------------------------------ handler state *)
NoResp == [status |-> 0, message |-> NoText, bill_id |-> NoId]

IdleReq ==
  [pc |-> "idle", kind |-> "none", n |-> 0, items |-> <<>>, arg |-> 0, idx |-> 0,
   bill_id |-> NoId, txBill |-> <<>>, txItems |-> <<>>, row |-> <<>>,
   deleted |-> FALSE, sel |-> {}, resp |-> NoResp,
   held |-> {}, txlog |-> <<>>, sent |-> <<>>,
   stock0 |-> <<>>, items0 |-> <<>>, bills0 |-> <<>>]

\* the pool connections a handler takes: mainDb.connect(), and
\* drugDb.connect() in the handlers that read or write stock
Conns(k) ==
  IF k \in {"createBill", "listBills", "removeBillItem", "getBillInfo",
            "getTopSellingStocks"}
  THEN {"main", "drug"}
  ELSE {"main"}

\* the handler has returned: locals are gone; what stays is the response,
\* the connections it did not release, the transaction statements it sent
\* on its billing connection and the statuses of its res.json calls
Left(k, n, status, msg, bid, held, txlog) ==
  [IdleReq EXCEPT !.pc = "done", !.kind = k, !.n = n,
                  !.resp = [status |-> status, message |-> msg, bill_id |-> bid],
                  !.held = held, !.txlog = txlog, !.sent = <<status>>]

\* the handler has answered from inside its try block: COMMIT before a
\* success response, ROLLBACK in the catch block, release in finally
Done(k, n, status, msg, bid) ==
  Left(k, n, status, msg, bid, {},
       <<"BEGIN", IF status \in {200, 201} THEN "COMMIT" ELSE "ROLLBACK">>)

\* a fresh handler for the next request: connections taken, BEGIN sent
Fresh(k) ==
  [IdleReq EXCEPT !.kind = k, !.n = started + 1,
                  !.held = Conns(k), !.txlog = <<"BEGIN">>,
                  !.stock0 = stock, !.items0 = items,
                  !.bills0 = bills]

CanStart(p) == req[p].pc \in {"idle", "done"} /\ started < MaxRequests

\* another handler's uncommitted DELETE holds the row lock of bill item id
LockedByOther(p, id) ==
  \E q \in Procs \ {p} :
    /\ req[q].kind = "removeBillItem"
    /\ req[q].pc \in {"restock", "r_commit"}
    /\ req[q].deleted
    /\ req[q].arg = id

Init ==
  /\ stock = InitAmount
  /\ bills = <<>>
  /\ items = <<>>
  /\ nextBillId = 1
  /\ nextItemId = 1
  /\ req = [p \in Procs |-> IdleReq]
  /\ started = 0
  /\ pre = <<>>
  /\ ver = [s \in StockIds |-> 0]
  /\ expense = <<>>
  /\ nextExpenseId = 1

(* ----------------------------------------------------------- createBill *)
\* connect, BEGIN, validation, totalAmount and INSERT INTO bills (the
\* requests of the model carry no customer_name and no discount: the row
\* gets NULL and 0)
CreateBillStart(p, its) ==
  /\ CanStart(p)
  /\ started' = started + 1
  /\   IF NoItems(its)
       THEN /\ req' = [req EXCEPT ![p] = Done("createBill", started + 1, 500, MsgItemsRequired, NoId)]
            /\ UNCHANGED nextBillId
       ELSE \E ok \in DbAccepts(TotalAmount(its)) :
              IF ok
              THEN /\ req' = [req EXCEPT ![p] =
                        [Fresh("createBill") EXCEPT
                           !.pc = IF Len(its) = 0 THEN "commit" ELSE "item",
                           !.items = its, !.idx = 1,
                           !.bill_id = nextBillId,
                           !.txBill = [customer_name |-> NoText,
                                       discount |-> 0,
                                       total_amount |-> TotalAmount(its)]]]
                   /\ nextBillId' = nextBillId + 1
              ELSE /\ req' = [req EXCEPT ![p] = Done("createBill", started + 1, 500, MsgDbError, NoId)]
                   /\ UNCHANGED nextBillId
  /\ UNCHANGED <<stock, bills, items, nextItemId, pre, ver,
               expense, nextExpenseId>>

\* createBill with a body that has no items field: `!items`
CreateBillNoItems(p) ==
  /\ CanStart(p)
  /\ started' = started + 1
  /\ req' = [req EXCEPT ![p] = Done("createBill", started + 1, 500, MsgItemsRequired, NoId)]
  /\ UNCHANGED <<stock, bills, items, nextBillId, nextItemId, pre, ver,
               expense, nextExpenseId>>

\* where the loop goes after item idx
AfterItem(r) == IF r.idx = Len(r.items) THEN "commit" ELSE "item"

\* head of the loop body: a service item is inserted, a catalog item is
\* checked against its stock row (SELECT unit_price, amount); a throw goes
\* to the catch block's ROLLBACK
CreateBillItem(p) ==
  LET r == req[p]
      it == r.items[r.idx]
  IN
  /\ r.kind = "createBill" /\ r.pc = "item"
  /\ IF IsService(it)
     THEN \E ok \in DbAccepts(BillItemRow(r.bill_id, it).subtotal) :
            IF ok
            THEN /\ req' = [req EXCEPT ![p] =
                      [r EXCEPT !.txItems = @ @@ (nextItemId :> BillItemRow(r.bill_id, it)),
                                !.idx = @ + 1, !.pc = AfterItem(r)]]
                 /\ nextItemId' = nextItemId + 1
            ELSE /\ req' = [req EXCEPT ![p] = Done("createBill", r.n, 500, MsgDbError, NoId)]
                 /\ UNCHANGED nextItemId
     ELSE /\ UNCHANGED nextItemId
          /\ IF it.stock_id = NoId
             THEN req' = [req EXCEPT ![p] = Done("createBill", r.n, 500, MsgStockIdRequired, NoId)]
             ELSE IF it.stock_id \notin DOMAIN stock
             THEN req' = [req EXCEPT ![p] = Done("createBill", r.n, 500, MsgStockNotFound, NoId)]
             ELSE IF Insufficient(stock[it.stock_id], it.quantity)
             THEN req' = [req EXCEPT ![p] = Done("createBill", r.n, 500, MsgInsufficient, NoId)]
             ELSE req' = [req EXCEPT ![p] = [r EXCEPT !.pc = "update"]]
  /\ IF req'[p].pc = "done"
     THEN /\ bills' = Rollback(bills, r.bill_id :> r.txBill)
          /\ items' = Rollback(items, r.txItems)
     ELSE UNCHANGED <<bills, items>>
  /\ UNCHANGED <<stock, nextBillId, started, pre, ver,
               expense, nextExpenseId>>

\* UPDATE stock SET amount = amount - quantity, then INSERT INTO bill_items
CreateBillUpdate(p) ==
  LET r == req[p]
      it == r.items[r.idx]
      s == it.stock_id
  IN
  /\ r.kind = "createBill" /\ r.pc = "update"
  /\ stock' = [stock EXCEPT ![s] = Reserve(@, it.quantity)]
  /\ ver' = [ver EXCEPT ![s] = @ + 1]
  /\ pre' = pre @@ (nextItemId :> [stock_id |-> s, amount |-> stock[s],
                                    ver |-> ver[s], released |-> 0])
  /\ req' = [req EXCEPT ![p] =
        [r EXCEPT !.txItems = @ @@ (nextItemId :> BillItemRow(r.bill_id, it)),
                  !.idx = @ + 1, !.pc = AfterItem(r)]]
  /\ nextItemId' = nextItemId + 1
  /\ UNCHANGED <<bills, items, nextBillId, started, expense, nextExpenseId>>

\* COMMIT and the 201 response
CreateBillCommit(p) ==
  LET r == req[p] IN
  /\ r.kind = "createBill" /\ r.pc = "commit"
  /\ bills' = bills @@ (r.bill_id :> r.txBill)
  /\ items' = items @@ r.txItems
  /\ req' = [req EXCEPT ![p] = Done("createBill", r.n, 201, MsgBillCreated, r.bill_id)]
  /\ UNCHANGED <<stock, nextBillId, nextItemId, started, pre, ver,
               expense, nextExpenseId>>

(* ------------------------------------------------------- removeBillItem *)
RemoveIds == 1 .. (MaxItems + 1)

\* every id a request can name: parseInt of a non-numeric parameter is NaN
AllRemoveIds == RemoveIds \cup {NaN}

\* connect; a NaN id answers 400 and returns before the try block; else
\* BEGIN and SELECT stock_id, quantity of the bill item
RemoveStart(p, id) ==
  /\ CanStart(p)
  /\ started' = started + 1
  /\   IF id = NaN
       THEN req' = [req EXCEPT ![p] =
               Left("removeBillItem", started + 1, 400, MsgInvalidItemId, NoId,
                    Conns("removeBillItem"), <<>>)]
       ELSE IF id \notin DOMAIN items
       THEN req' = [req EXCEPT ![p] = Done("removeBillItem", started + 1, 500, MsgItemNotFound, NoId)]
       ELSE req' = [req EXCEPT ![p] =
               [Fresh("removeBillItem") EXCEPT
                  !.pc = "delete", !.arg = id,
                  !.row = [stock_id |-> items[id].stock_id,
                           quantity |-> items[id].quantity]]]
  /\ UNCHANGED <<stock, bills, items, nextBillId, nextItemId, pre, ver,
               expense, nextExpenseId>>

\* DELETE FROM bill_items: waits for the row lock, deletes the row if it is
\* still there
RemoveDelete(p) ==
  LET r == req[p] IN
  /\ r.kind = "removeBillItem" /\ r.pc = "delete"
  /\ ~LockedByOther(p, r.arg)
  /\ req' = [req EXCEPT ![p] =
        [r EXCEPT !.deleted = (r.arg \in DOMAIN items),
                  !.pc = IF r.row.stock_id # NoId THEN "restock" ELSE "r_commit"]]
  /\ UNCHANGED <<stock, bills, items, nextBillId, nextItemId, started, pre, ver,
               expense, nextExpenseId>>

\* UPDATE stock SET amount = amount + quantity
RemoveRestock(p) ==
  LET r == req[p]
      s == r.row.stock_id
  IN
  /\ r.kind = "removeBillItem" /\ r.pc = "restock"
  /\ IF s \in DOMAIN stock
     THEN /\ stock' = [stock EXCEPT ![s] = Release(@, r.row.quantity)]
          /\ ver' = [ver EXCEPT ![s] = @ + 1]
          /\ pre' = [pre EXCEPT ![r.arg].released = @ + 1]
     ELSE UNCHANGED <<stock, ver, pre>>
  /\ req' = [req EXCEPT ![p] = [r EXCEPT !.pc = "r_commit"]]
  /\ UNCHANGED <<bills, items, nextBillId, nextItemId, started,
               expense, nextExpenseId>>

\* a DELETE without its WHERE clause
WithoutItem_m(its, id) == <<>>

\* bill_items after DELETE FROM bill_items WHERE bill_item_id = id
WithoutItem(its, id) == [i \in DOMAIN its \ {id} |-> its[i]]

\* COMMIT and the 200 response
RemoveCommit(p) ==
  LET r == req[p] IN
  /\ r.kind = "removeBillItem" /\ r.pc = "r_commit"
  /\ items' = IF r.deleted THEN WithoutItem(items, r.arg) ELSE items
  /\ req' = [req EXCEPT ![p] = Done("removeBillItem", r.n, 200, MsgRemoved, NoId)]
  /\ UNCHANGED <<stock, bills, nextBillId, nextItemId, started, pre, ver,
               expense, nextExpenseId>>

(* -------------------------------------------------------------- confirm *)
\* connect, BEGIN, SELECT the pending rows, totals and INSERT INTO bills
ConfirmStart(p, d) ==
  /\ CanStart(p)
  /\ started' = started + 1
  /\   LET ids == PendingIds(items) IN
       IF NothingToConfirm(ids)
       THEN /\ req' = [req EXCEPT ![p] = Done("confirm", started + 1, 500, MsgNoPending, NoId)]
            /\ UNCHANGED nextBillId
       ELSE \E ok \in DbAccepts(Discounted(SumSubtotal(items, ids), d)) :
              IF ok
              THEN /\ req' = [req EXCEPT ![p] =
                        [Fresh("confirm") EXCEPT
                           !.pc = "c_update", !.arg = d, !.sel = ids,
                           !.bill_id = nextBillId,
                           !.txBill = [customer_name |-> NoText,
                                       discount |-> d,
                                       total_amount |->
                                         Discounted(SumSubtotal(items, ids), d)]]]
                   /\ nextBillId' = nextBillId + 1
              ELSE /\ req' = [req EXCEPT ![p] = Done("confirm", started + 1, 500, MsgDbError, NoId)]
                   /\ UNCHANGED nextBillId
  /\ UNCHANGED <<stock, bills, items, nextItemId, pre, ver,
               expense, nextExpenseId>>

\* UPDATE bill_items ... WHERE status = 'pending', COMMIT and the 201
\* response.  The UPDATE waits for the row locks of the rows it matches; its
\* changes are invisible until the COMMIT, so the two are one step.
ConfirmUpdate(p) ==
  LET r == req[p] IN
  /\ r.kind = "confirm" /\ r.pc = "c_update"
  /\ \A i \in PendingIds(items) : ~LockedByOther(p, i)
  /\ items' = [i \in DOMAIN items |-> ConfirmRow(items[i], r.bill_id)]
  /\ bills' = bills @@ (r.bill_id :> r.txBill)
  /\ req' = [req EXCEPT ![p] = Done("confirm", r.n, 201, MsgConfirmed, r.bill_id)]
  /\ UNCHANGED <<stock, nextBillId, nextItemId, started, pre, ver,
               expense, nextExpenseId>>

(* ---------------------------------------------------- read-only handlers *)
\* listBills: the pending rows joined with their stock rows
ListBills(p) ==
  /\ CanStart(p)
  /\ started' = started + 1
  /\ req' = [req EXCEPT ![p] =
        [Left("listBills", started + 1, 200, NoText, NoId, {}, <<>>)
           EXCEPT !.sel = PendingIds(items)]]
  /\ UNCHANGED <<stock, bills, items, nextBillId, nextItemId, pre, ver,
               expense, nextExpenseId>>

\* history: one page of the bills
History(p) ==
  /\ CanStart(p)
  /\ started' = started + 1
  /\ req' = [req EXCEPT ![p] =
        [Left("history", started + 1, 200, NoText, NoId, {}, <<>>)
           EXCEPT !.sel = DOMAIN bills]]
  /\ UNCHANGED <<stock, bills, items, nextBillId, nextItemId, pre, ver,
               expense, nextExpenseId>>

\* dashboard: BEGIN, the sums, the 200 response, COMMIT; a COMMIT the store
\* fails goes to the catch block: ROLLBACK and a 500 response after the 200
Dashboard(p) ==
  /\ CanStart(p)
  /\ started' = started + 1
  /\ \E committed \in BOOLEAN :
       req' = [req EXCEPT ![p] =
         IF committed
         THEN Left("dashboard", started + 1, 200, NoText, NoId, {},
                   <<"BEGIN", "COMMIT">>)
         ELSE [Left("dashboard", started + 1, 200, NoText, NoId, {},
                    <<"BEGIN", "COMMIT", "ROLLBACK">>)
                 EXCEPT !.sent = <<200, 500>>]]
  /\ UNCHANGED <<stock, bills, items, nextBillId, nextItemId, pre, ver,
               expense, nextExpenseId>>

\* the bill_id parameters of the model: NaN is a non-numeric one
BillIdParams == {NaN} \cup (1 .. MaxRequests)

\* rows of `bills b JOIN bill_items bi ON b.bill_id = bi.bill_id WHERE
\* b.bill_id = id`
BillInfoRows(id) ==
  { i \in DOMAIN items : id \in DOMAIN bills /\ items[i].bill_id = id }

\* getBillInfo: an invalid bill_id answers 400 and returns before the try
\* block; no row answers 404 from inside it
GetBillInfo(p, id) ==
  /\ CanStart(p)
  /\ started' = started + 1
  /\ req' = [req EXCEPT ![p] =
        IF id = NaN
        THEN Left("getBillInfo", started + 1, 400, MsgInvalidBillId, NoId,
                  Conns("getBillInfo"), <<>>)
        ELSE IF BillInfoRows(id) = {}
        THEN Left("getBillInfo", started + 1, 404, MsgBillNotFound, NoId, {}, <<>>)
        ELSE [Left("getBillInfo", started + 1, 200, NoText, id, {}, <<>>)
                EXCEPT !.sel = BillInfoRows(id)]]
  /\ UNCHANGED <<stock, bills, items, nextBillId, nextItemId, pre, ver,
               expense, nextExpenseId>>

\* stock ids of `SELECT stock_id ... FROM bill_items WHERE status =
\* 'confirmed' GROUP BY stock_id` (NULL is a group of its own)
TopSellingIds ==
  { items[i].stock_id : i \in { j \in DOMAIN items : items[j].status = "confirmed" } }

\* getTopSellingStocks: 404 from inside the try block when nothing is
\* confirmed
GetTopSellingStocks(p) ==
  /\ CanStart(p)
  /\ started' = started + 1
  /\ req' = [req EXCEPT ![p] =
        IF TopSellingIds = {}
        THEN Left("getTopSellingStocks", started + 1, 404, MsgNoTopSelling, NoId, {}, <<>>)
        ELSE [Left("getTopSellingStocks", started + 1, 200, NoText, NoId, {}, <<>>)
                EXCEPT !.sel = TopSellingIds]]
  /\ UNCHANGED <<stock, bills, items, nextBillId, nextItemId, pre, ver,
               expense, nextExpenseId>>

(* ----------------------------------------------------- inventory lookups *)
\* the stock_id parameters of getStockByStockId
StockIdParams == StockIds \cup {7}

\* stock.drug_id of the rows of the model
DrugOf == (5 :> 1) @@ (6 :> 1)

\* the drug_id parameters of getStockByDrugId
DrugIdParams == {1, 2}

\* res.json calls of a lookup that found no row: the 404 without a return,
\* then the success response, which throws because the headers are sent,
\* then the 500 of the catch block
AbsentSends(ok) == <<404, ok, 500>>

\* getStockByStockId: pool query on the inventory store, no connection held
GetStockByStockId(p, id) ==
  /\ CanStart(p)
  /\ started' = started + 1
  /\ req' = [req EXCEPT ![p] =
        IF id \notin DOMAIN stock
        THEN [Left("getStockByStockId", started + 1, 404, MsgStockAbsent, NoId,
                   {}, <<>>)
                EXCEPT !.sent = AbsentSends(200)]
        ELSE [Left("getStockByStockId", started + 1, 200, NoText, NoId, {}, <<>>)
                EXCEPT !.sel = {id}]]
  /\ UNCHANGED <<stock, bills, items, nextBillId, nextItemId, pre, ver,
                 expense, nextExpenseId>>

\* getStockByDrugId: SELECT * FROM stock WHERE drug_id = $1
GetStockByDrugId(p, drug) ==
  LET rows == { s \in DOMAIN stock : DrugOf[s] = drug } IN
  /\ CanStart(p)
  /\ started' = started + 1
  /\ req' = [req EXCEPT ![p] =
        IF rows = {}
        THEN [Left("getStockByDrugId", started + 1, 404, MsgNoStocksForDrug,
                   NoId, {}, <<>>)
                EXCEPT !.sent = AbsentSends(200)]
        ELSE [Left("getStockByDrugId", started + 1, 200, NoText, NoId, {}, <<>>)
                EXCEPT !.sel = rows]]
  /\ UNCHANGED <<stock, bills, items, nextBillId, nextItemId, pre, ver,
                 expense, nextExpenseId>>

(* -------------------------------------------------------------- expenses *)
\* request bodies of createExpense and updateExpense
ExpenseBodies ==
  { [quantity |-> 2, totalprice |-> 100],
    [quantity |-> 0, totalprice |-> 100],      \* quantity missing or 0
    [quantity |-> 2, totalprice |-> NaN] }     \* totalprice not a number

\* the id parameters of updateExpense and deleteExpense
ExpenseIds == 1 .. MaxItems

\* decimal text of a natural number
RECURSIVE Digits(_)
Digits(k) == IF k < 10 THEN <<k>> ELSE Append(Digits(k \div 10), k % 10)

\* a < b as texts
RECURSIVE TextLess(_, _)
TextLess(a, b) ==
  IF a = <<>> THEN b # <<>>
  ELSE IF b = <<>> THEN FALSE
  ELSE IF Head(a) # Head(b) THEN Head(a) < Head(b)
  ELSE TextLess(Tail(a), Tail(b))

\* SELECT orderid FROM expense ORDER BY orderid DESC LIMIT 1, the column
\* holding the number's text; then parseInt(...) + 1, or 1 on an empty table
NewOrderId(exp) ==
  IF DOMAIN exp = {} THEN 1
  ELSE LET last == CHOOSE i \in DOMAIN exp :
                     \A j \in DOMAIN exp :
                       ~TextLess(Digits(exp[i].orderid), Digits(exp[j].orderid))
       IN exp[last].orderid + 1

\* createExpense: connect, BEGIN, validation, SELECT of the last orderid
CreateExpenseStart(p, body) ==
  /\ CanStart(p)
  /\ started' = started + 1
  /\ req' = [req EXCEPT ![p] =
        IF body.quantity = 0 \/ body.quantity = NaN
        THEN Done("createExpense", started + 1, 500, MsgQuantityInvalid, NoId)
        ELSE IF body.totalprice = 0 \/ body.totalprice = NaN
        THEN Done("createExpense", started + 1, 500, MsgTotalInvalid, NoId)
        ELSE [Fresh("createExpense") EXCEPT
                !.pc = "e_insert", !.arg = NewOrderId(expense),
                !.row = body]]
  /\ UNCHANGED <<stock, bills, items, nextBillId, nextItemId, pre, ver,
                 expense, nextExpenseId>>

\* an INSERT of an orderid the table already holds is refused if the column
\* is declared UNIQUE and accepted if not; the schema is not part of the
\* sources
OrderIdAccepted(exp, orderid) ==
  IF \E i \in DOMAIN exp : exp[i].orderid = orderid THEN BOOLEAN ELSE {TRUE}

\* createExpense: INSERT INTO expense, COMMIT and the 200 response; a
\* refused INSERT goes to the catch block
CreateExpenseInsert(p) ==
  LET r == req[p] IN
  /\ r.kind = "createExpense" /\ r.pc = "e_insert"
  /\ \E ok \in OrderIdAccepted(expense, r.arg) :
       IF ok
       THEN /\ expense' = expense @@
                  (nextExpenseId :> [orderid |-> r.arg,
                                     quantity |-> r.row.quantity,
                                     totalprice |-> r.row.totalprice])
            /\ nextExpenseId' = nextExpenseId + 1
            /\ req' = [req EXCEPT ![p] =
                  Done("createExpense", r.n, 200, MsgExpenseCreated, NoId)]
       ELSE /\ req' = [req EXCEPT ![p] =
                  Done("createExpense", r.n, 500, MsgDbError, NoId)]
            /\ UNCHANGED <<expense, nextExpenseId>>
  /\ UNCHANGED <<stock, bills, items, nextBillId, nextItemId, started, pre, ver>>

\* updateExpense: BEGIN and UPDATE ... WHERE id = $5 RETURNING *; no row
\* answers 404 and returns from inside the try block, with neither COMMIT
\* nor ROLLBACK before the release in finally; else COMMIT and 200
UpdateExpense(p, id, body) ==
  /\ CanStart(p)
  /\ started' = started + 1
  /\ IF id \notin DOMAIN expense
     THEN /\ req' = [req EXCEPT ![p] =
                Left("updateExpense", started + 1, 404, MsgExpenseNotFound,
                     NoId, {}, <<"BEGIN">>)]
          /\ UNCHANGED expense
     ELSE \E ok \in DbAccepts(body.totalprice) :
            IF ok
            THEN /\ expense' = [expense EXCEPT
                                  ![id].quantity = body.quantity,
                                  ![id].totalprice = body.totalprice]
                 /\ req' = [req EXCEPT ![p] =
                       Done("updateExpense", started + 1, 200, MsgExpenseUpdated, NoId)]
            ELSE /\ req' = [req EXCEPT ![p] =
                       Done("updateExpense", started + 1, 500, MsgDbError, NoId)]
                 /\ UNCHANGED expense
  /\ UNCHANGED <<stock, bills, items, nextBillId, nextItemId, pre, ver,
                 nextExpenseId>>

\* deleteExpense: BEGIN and DELETE ... WHERE id = $1 RETURNING *; no row
\* answers 404 and returns as updateExpense does; else COMMIT and 200
DeleteExpense(p, id) ==
  /\ CanStart(p)
  /\ started' = started + 1
  /\ IF id \notin DOMAIN expense
     THEN /\ req' = [req EXCEPT ![p] =
                Left("deleteExpense", started + 1, 404, MsgExpenseNotFound,
                     NoId, {}, <<"BEGIN">>)]
          /\ UNCHANGED expense
     ELSE /\ expense' = [i \in DOMAIN expense \ {id} |-> expense[i]]
          /\ req' = [req EXCEPT ![p] =
                Done("deleteExpense", started + 1, 200, MsgExpenseDeleted, NoId)]
  /\ UNCHANGED <<stock, bills, items, nextBillId, nextItemId, pre, ver,
                 nextExpenseId>>

(* -------------------------------------------------------- specifications *)
\* the steps a started handler takes
Run(p) ==
  \/ CreateBillItem(p)
  \/ CreateBillUpdate(p)
  \/ CreateBillCommit(p)
  \/ RemoveDelete(p)
  \/ RemoveRestock(p)
  \/ RemoveCommit(p)
  \/ ConfirmUpdate(p)

\* requests handled concurrently
Next ==
  \E p \in Procs :
    \/ \E its \in ConcItemLists : CreateBillStart(p, its)
    \/ CreateBillNoItems(p)
    \/ \E id \in RemoveIds : RemoveStart(p, id)
    \/ \E d \in Discounts : ConfirmStart(p, d)
    \/ Run(p)

Spec == Init /\ [][Next]_vars

\* requests handled one at a time
NextSeq ==
  \/ \E its \in ItemLists : CreateBillStart(1, its)
  \/ CreateBillNoItems(1)
  \/ \E id \in RemoveIds : RemoveStart(1, id)
  \/ \E d \in Discounts : ConfirmStart(1, d)
  \/ Run(1)

SpecSeq == Init /\ [][NextSeq]_vars

\* requests handled one at a time, every request shape
NextAll ==
  \/ \E its \in AllItemLists : CreateBillStart(1, its)
  \/ CreateBillNoItems(1)
  \/ \E id \in AllRemoveIds : RemoveStart(1, id)
  \/ \E d \in Discounts : ConfirmStart(1, d)
  \/ Run(1)
  \/ ListBills(1)
  \/ History(1)
  \/ Dashboard(1)
  \/ \E id \in BillIdParams : GetBillInfo(1, id)
  \/ GetTopSellingStocks(1)
  \/ \E body \in ExpenseBodies : CreateExpenseStart(1, body)
  \/ CreateExpenseInsert(1)
  \/ \E id \in ExpenseIds, body \in ExpenseBodies : UpdateExpense(1, id, body)
  \/ \E id \in ExpenseIds : DeleteExpense(1, id)
  \/ \E id \in StockIdParams : GetStockByStockId(1, id)
  \/ \E drug \in DrugIdParams : GetStockByDrugId(1, drug)

SpecAll == Init /\ [][NextAll]_vars

\* number of expense rows the table can hold when the first request of a
\* behaviour arrives: none, or the nine that nine createExpense requests
\* handled one at a time leave
StoredExpenses == {0, 9}

\* the expense table after k createExpense requests handled one at a time
ExpenseTable(k) ==
  [i \in 1..k |-> [orderid |-> i, quantity |-> 2, totalprice |-> 100]]

InitExpense ==
  /\ stock = InitAmount
  /\ bills = <<>>
  /\ items = <<>>
  /\ nextBillId = 1
  /\ nextItemId = 1
  /\ req = [p \in Procs |-> IdleReq]
  /\ started = 0
  /\ pre = <<>>
  /\ ver = [s \in StockIds |-> 0]
  /\ \E k \in StoredExpenses :
       expense = ExpenseTable(k) /\ nextExpenseId = k + 1

\* the expense handlers, requests handled concurrently
NextExpense ==
  \E p \in Procs :
    \/ \E body \in ExpenseBodies : CreateExpenseStart(p, body)
    \/ CreateExpenseInsert(p)
    \/ \E id \in ExpenseIds, body \in ExpenseBodies : UpdateExpense(p, id, body)
    \/ \E id \in ExpenseIds : DeleteExpense(p, id)

SpecExpense == InitExpense /\ [][NextExpense]_vars

\* requests handled one at a time, quantities of either sign
NextQty ==
  \/ \E its \in QtyItemLists : CreateBillStart(1, its)
  \/ CreateBillNoItems(1)
  \/ \E id \in RemoveIds : RemoveStart(1, id)
  \/ \E d \in Discounts : ConfirmStart(1, d)
  \/ Run(1)
  \/ ListBills(1)
  \/ History(1)
  \/ Dashboard(1)
  \/ \E id \in BillIdParams : GetBillInfo(1, id)
  \/ GetTopSellingStocks(1)

SpecQty == Init /\ [][NextQty]_vars

(* ---------------------------------------------------------------- claims *)
\* process p takes a step from handler position pos
Steps(p, k, pos) ==
  /\ req[p].kind = k
  /\ req[p].pc = pos
  /\ req'[p] # req[p]

\* process p receives a request of kind k in this step
Starts(p, k) ==
  /\ started' = started + 1
  /\ req'[p].n = started'
  /\ req'[p].kind = k

\* C1: in every reachable state, also when createBill requests for the same
\* stock_id interleave their SELECT and UPDATE, every Stock.amount is >= 0.
C1_StockNonNegative == \A s \in DOMAIN stock : stock[s] >= 0

\* C2: a catalog item asking for more than the row's amount at the check
\* makes createBill answer 500 with the insufficient-stock message without
\* decrementing the row; an unknown stock_id answers 500 with the not-found
\* message and changes no stock row.
C2_InsufficientStockRejected ==
  [][\A p \in Procs :
       Steps(p, "createBill", "item") =>
         LET it == req[p].items[req[p].idx] IN
         /\ (/\ it.service = NoText
             /\ it.stock_id \in DOMAIN stock
             /\ it.quantity > stock[it.stock_id])
            => /\ req'[p].pc = "done"
               /\ req'[p].resp.status = 500
               /\ req'[p].resp.message = MsgInsufficient
               /\ stock' = stock
         /\ (/\ it.service = NoText
             /\ it.stock_id # NoId
             /\ it.stock_id \notin DOMAIN stock)
            => /\ req'[p].pc = "done"
               /\ req'[p].resp.status = 500
               /\ req'[p].resp.message = MsgStockNotFound
               /\ stock' = stock]_vars

\* C2 witness: one createBill was refused for insufficient stock and another
\* for an unknown stock_id
C2_Witness ==
  /\ \E p \in Procs : /\ req[p].kind = "createBill" /\ req[p].pc = "done"
                      /\ req[p].resp.message = MsgInsufficient
  /\ \E p \in Procs : /\ req[p].kind = "createBill" /\ req[p].pc = "done"
                      /\ req[p].resp.message = MsgStockNotFound

\* the price the claims give an item: a service item's given price, a
\* catalog item's customPrice when given and else the row's unit_price
ClaimPrice(it) ==
  IF it.service # NoText THEN it.price
  ELSE IF it.customPrice # 0 THEN it.customPrice
  ELSE UnitPrice[it.stock_id]

RECURSIVE ClaimTotal(_)
ClaimTotal(its) ==
  IF its = <<>> THEN 0
  ELSE ClaimPrice(Head(its)) * Head(its).quantity + ClaimTotal(Tail(its))

\* C3: the total_amount of the Bill of a successful createBill is the sum of
\* price x quantity over the request's items (customPrice, else the stock
\* row's unit_price, else the service price); {stock_id:5, quantity:2}
\* against stock 5 at amount 10 and unit_price 50 gives total_amount 100 and
\* leaves stock 5 at amount 8.
C3_TotalIsSumOfPrices ==
  [][Steps(1, "createBill", "commit") =>
       /\ req'[1].resp.status = 201
       /\ req'[1].resp.bill_id \in DOMAIN bills'
       /\ bills'[req'[1].resp.bill_id].total_amount = ClaimTotal(req[1].items)
       /\ (req[1].items = <<Item(5, 2, NaN, 0, NoText)>> /\ req[1].stock0[5] = 10)
          => /\ bills'[req'[1].resp.bill_id].total_amount = 100
             /\ stock'[5] = 8]_vars

\* C4: a reservation of q followed by a successful removeBillItem of that
\* item, with no other write to the stock row in between, puts the row's
\* amount back to its value before the reservation, and the item is gone.
C4_ReserveReleaseRoundTrip ==
  [][\A p \in Procs :
       /\ Steps(p, "removeBillItem", "restock") =>
            LET id == req[p].arg
                s == req[p].row.stock_id
            IN (/\ id \in DOMAIN pre
                /\ pre[id].stock_id = s
                /\ ver'[s] = pre[id].ver + 2)
               => stock'[s] = pre[id].amount
       /\ Steps(p, "removeBillItem", "r_commit") =>
            /\ req'[p].resp.status = 200
            /\ req[p].arg \notin DOMAIN items']_vars

\* C4 witness: a catalog item was reserved and then removed with no other
\* write to its stock row, by a request that answered 200
C4_Witness ==
  /\ \E p \in Procs : /\ req[p].kind = "removeBillItem" /\ req[p].pc = "done"
                      /\ req[p].resp.status = 200
  /\ \E id \in DOMAIN pre :
       /\ id \notin DOMAIN items
       /\ ver[pre[id].stock_id] = pre[id].ver + 2
       /\ stock[pre[id].stock_id] = pre[id].amount

\* C5: confirm with no pending BillItem answers 500 'No pending bill items
\* found to confirm' and changes neither a Bill nor a BillItem.
C5_ConfirmNothingPending ==
  [][\A p \in Procs :
       (Starts(p, "confirm") /\ \A i \in DOMAIN items : items[i].status # "pending")
       => /\ req'[p].pc = "done"
          /\ req'[p].resp.status = 500
          /\ req'[p].resp.message = MsgNoPending
          /\ bills' = bills
          /\ items' = items]_vars

\* C5 witness: a confirm found nothing pending and answered 500
C5_Witness ==
  \E p \in Procs : /\ req[p].kind = "confirm" /\ req[p].pc = "done"
                   /\ req[p].resp.status = 500
                   /\ req[p].resp.message = MsgNoPending
                   /\ \A i \in DOMAIN items : items[i].status # "pending"

\* sum of subtotal over the rows ids of the bill_items table its
RECURSIVE ClaimSum(_, _)
ClaimSum(its, ids) ==
  IF ids = {} THEN 0
  ELSE LET i == CHOOSE x \in ids : TRUE
       IN its[i].subtotal + ClaimSum(its, ids \ {i})

\* C6: a successful confirm(discount) over pending items of total T creates
\* exactly one Bill with total_amount T - T*discount/100; afterwards every
\* item that was pending is confirmed under the new bill_id and none is
\* pending.
C6_ConfirmCreatesDiscountedBill ==
  [][Steps(1, "confirm", "c_update") =>
       LET its0 == req[1].items0
           was == { i \in DOMAIN its0 : its0[i].status = "pending" }
           T == ClaimSum(its0, was)
           b == req'[1].resp.bill_id
       IN /\ req'[1].resp.status = 201
          /\ b \notin DOMAIN req[1].bills0
          /\ DOMAIN bills' = DOMAIN req[1].bills0 \cup {b}
          /\ \A x \in DOMAIN req[1].bills0 : bills'[x] = req[1].bills0[x]
          /\ 100 * bills'[b].total_amount = 100 * T - T * req[1].arg
          /\ \A i \in was : /\ i \in DOMAIN items'
                            /\ items'[i].status = "confirmed"
                            /\ items'[i].bill_id = b
          /\ \A i \in DOMAIN items' : items'[i].status # "pending"]_vars

\* C6 witness: confirm(10) over pending items of subtotal 1000 made a Bill of
\* total_amount 900 that the items now belong to
C6_Witness ==
  /\ req[1].kind = "confirm" /\ req[1].pc = "done" /\ req[1].resp.status = 201
  /\ LET b == req[1].resp.bill_id
         mine == { i \in DOMAIN items : items[i].bill_id = b }
     IN /\ bills[b].discount = 10
        /\ bills[b].total_amount = 900
        /\ mine # {}
        /\ ClaimSum(items, mine) = 1000
        /\ \A i \in mine : items[i].status = "confirmed"

\* C7: every confirmed BillItem names exactly one existing Bill and every
\* pending BillItem has a null bill_id.
C7_StatusMatchesBillId ==
  \A i \in DOMAIN items :
    /\ items[i].status = "confirmed" => items[i].bill_id \in DOMAIN bills
    /\ items[i].status = "pending" => items[i].bill_id = NoId

\* C8: for every Bill, the sum S of subtotal over its confirmed BillItems
\* reconciles with total_amount: S - S*discount/100, or S for a Bill written
\* by createBill.
C8_BillTotalReconciles ==
  \A b \in DOMAIN bills :
    LET mine == { i \in DOMAIN items :
                    items[i].bill_id = b /\ items[i].status = "confirmed" }
        S == ClaimSum(items, mine)
    IN \/ 100 * bills[b].total_amount = 100 * S - S * bills[b].discount
       \/ bills[b].total_amount = S

\* every item of the request is a service item
AllService(its) == \A k \in 1..Len(its) : its[k].service # NoText

\* C9: a createBill whose items are all service items inserts one BillItem
\* per item, with stock_id NULL and the item's service label, and leaves
\* every Stock.amount as it was.
C9_ServiceOnlyLeavesInventory ==
  [][(/\ req[1].kind = "createBill"
      /\ req[1].pc \in {"item", "update", "commit"}
      /\ AllService(req[1].items)
      /\ req'[1] # req[1])
     => /\ stock' = req[1].stock0
        /\ req'[1].pc # "update"
        /\ req'[1].pc = "done" =>
             LET its == req[1].items
                 added == DOMAIN items' \ DOMAIN req[1].items0
             IN /\ req'[1].resp.status = 201
                /\ Cardinality(added) = Len(its)
                /\ \A i \in DOMAIN req[1].items0 :
                     i \in DOMAIN items' /\ items'[i] = req[1].items0[i]
                /\ \A i \in added : items'[i].stock_id = NoId
                /\ \A k \in 1..Len(its) :
                     Cardinality({ i \in added :
                                     /\ items'[i].service = its[k].service
                                     /\ items'[i].quantity = its[k].quantity })
                     >= Cardinality({ j \in 1..Len(its) : its[j] = its[k] })]_vars

\* C9 witness: a request of service items only, one of them carrying a
\* stock_id too, answered 201 with the inventory as it started
C9_Witness ==
  /\ req[1].kind = "createBill" /\ req[1].pc = "done" /\ req[1].resp.status = 201
  /\ stock = InitAmount
  /\ \A s \in StockIds : ver[s] = 0
  /\ \E i, j \in DOMAIN items :
       /\ items[i].service = "Dressing" /\ items[i].stock_id = NoId
       /\ items[j].service = "Consultation" /\ items[j].stock_id = NoId
       /\ items[i].bill_id = req[1].resp.bill_id
       /\ items[j].bill_id = req[1].resp.bill_id

\* C10: removeBillItem of an id that does not exist answers 500 with the
\* not-found message and changes neither store; a successful one deletes
\* exactly the named BillItem and, only if it had a stock_id, adds its
\* quantity to exactly that stock row.
C10_RemoveFrame ==
  [][/\ Starts(1, "removeBillItem") =>
          IF req'[1].pc = "done"
          THEN /\ req'[1].resp.status = 500
               /\ req'[1].resp.message = MsgItemNotFound
               /\ items' = items /\ bills' = bills /\ stock' = stock
          ELSE req'[1].arg \in DOMAIN items
     /\ Steps(1, "removeBillItem", "r_commit") =>
          LET id == req[1].arg
              its0 == req[1].items0
              stk0 == req[1].stock0
              sid == its0[id].stock_id
          IN /\ req'[1].resp.status = 200
             /\ DOMAIN items' = DOMAIN its0 \ {id}
             /\ \A i \in DOMAIN items' : items'[i] = its0[i]
             /\ bills' = req[1].bills0
             /\ stock' = IF sid # NoId
                         THEN [stk0 EXCEPT ![sid] = @ + its0[id].quantity]
                         ELSE stk0]_vars

\* C10 witness: a catalog-linked item of quantity 2 was removed with a 200
\* and its stock row is back at the initial amount
C10_Witness ==
  /\ req[1].kind = "removeBillItem" /\ req[1].pc = "done"
  /\ req[1].resp.status = 200
  /\ \E id \in DOMAIN pre :
       /\ id \notin DOMAIN items
       /\ pre[id].stock_id = 5
       /\ ver[5] = 2
       /\ stock[5] = InitAmount[5]

\* C11: createBill with a missing or an empty items list answers 500 'At
\* least one bill item is required.' before any write: no Bill row, no
\* BillItem row, no Stock.amount change, no statement sent.
C11_EmptyItemsRejected ==
  [][\A p \in Procs :
       (CreateBillStart(p, <<>>) \/ CreateBillNoItems(p))
       => /\ req'[p].pc = "done"
          /\ req'[p].resp.status = 500
          /\ req'[p].resp.message = MsgItemsRequired
          /\ bills' = bills
          /\ items' = items
          /\ stock' = stock
          /\ nextBillId' = nextBillId
          /\ nextItemId' = nextItemId]_vars

\* C11 witness: a createBill was refused for its items list and the stores
\* are still as constructed
C11_Witness ==
  /\ \E p \in Procs : /\ req[p].kind = "createBill" /\ req[p].pc = "done"
                      /\ req[p].resp.status = 500
                      /\ req[p].resp.message = MsgItemsRequired
  /\ bills = <<>> /\ items = <<>> /\ stock = InitAmount

\* C12: a createBill that does not answer 201 (missing stock_id, stock row
\* not found, insufficient stock, refused INSERT), whatever the position of
\* the failing item, leaves the billing store without the request's Bill and
\* without any BillItem of the request: bills and bill_items are as they were
\* when the request arrived.
C12_CreateBillAllOrNothing ==
  [][(/\ req'[1].kind = "createBill"
      /\ req'[1].pc = "done"
      /\ req'[1] # req[1]
      /\ req'[1].resp.status # 201)
     => IF req[1].pc \in {"item", "update", "commit"}
        THEN /\ bills' = req[1].bills0
             /\ items' = req[1].items0
             /\ req[1].bill_id \notin DOMAIN bills'
             /\ \A i \in DOMAIN items' : i \notin DOMAIN req[1].txItems
        ELSE bills' = bills /\ items' = items]_vars

\* C12 witness: the second item failed after the first had been reserved and
\* inserted, and the billing store is empty
C12_Witness ==
  /\ req[1].kind = "createBill" /\ req[1].pc = "done"
  /\ req[1].resp.status = 500 /\ req[1].resp.message = MsgStockNotFound
  /\ req[1].n = 1
  /\ nextBillId = 2 /\ nextItemId = 2
  /\ bills = <<>> /\ items = <<>>

\* quantity the catalog items before position k of a request take from
\* stock row s
RECURSIVE ClaimReserved(_, _, _)
ClaimReserved(its, k, s) ==
  IF k <= 1 THEN 0
  ELSE ClaimReserved(its, k - 1, s)
       + (IF ~IsService(its[k - 1]) /\ its[k - 1].stock_id = s
          THEN its[k - 1].quantity ELSE 0)

C14_ConnectionsReleased ==
  \A p \in Procs : req[p].pc = "done" => req[p].held = {}

\* C15: every transaction a handler opens with BEGIN is ended by exactly one
\* COMMIT when the handler answers with success and by exactly one ROLLBACK
\* otherwise, before the connection is released.
C15_TransactionsEnded ==
  \A p \in Procs :
    (req[p].pc = "done" /\ req[p].txlog # <<>>)
    => req[p].txlog =
         <<"BEGIN", IF req[p].resp.status \in {200, 201} THEN "COMMIT"
                    ELSE "ROLLBACK">>

\* the handlers whose step answers 201 to a createBill or a confirm
ClaimAnswers201 ==
  { p \in Procs : /\ req'[p] # req[p]
                  /\ req'[p].pc = "done"
                  /\ req'[p].kind \in {"createBill", "confirm"}
                  /\ req'[p].resp.status = 201 }

\* C16: a Bill row appears exactly in the steps where a createBill or a
\* confirm answers 201, one row per answer, under the answered bill_id, and
\* no step changes or removes an existing Bill row (total_amount, discount,
\* customer_name); so the number of Bill rows is the number of 201 answers.
C16_OneBillPerSuccess ==
  [][/\ DOMAIN bills' =
          DOMAIN bills \cup { req'[p].resp.bill_id : p \in ClaimAnswers201 }
     /\ Cardinality(DOMAIN bills') =
          Cardinality(DOMAIN bills) + Cardinality(ClaimAnswers201)
     /\ \A b \in DOMAIN bills : bills'[b] = bills[b]]_vars

\* C16 witness: one createBill and one confirm have answered 201, a third
\* request has not, and there are two Bill rows
C16_Witness ==
  /\ started = 3
  /\ req[1].pc = "done" /\ req[1].kind = "confirm" /\ req[1].resp.status = 201
  /\ req[2].pc = "done" /\ req[2].kind = "createBill" /\ req[2].resp.status = 201
  /\ DOMAIN bills = {req[1].resp.bill_id, req[2].resp.bill_id}
  /\ Cardinality(DOMAIN bills) = 2

\* C17: removeBillItem acts on pending items only: no step removes a
\* BillItem whose status is confirmed, and no removeBillItem raises a stock
\* amount for an item that is not pending.
C17_ConfirmedItemsStay ==
  [][/\ \A i \in DOMAIN items :
          items[i].status = "confirmed" => i \in DOMAIN items'
     /\ \A p \in Procs :
          (/\ req[p].kind = "removeBillItem"
           /\ req[p].pc = "restock"
           /\ stock' # stock)
          => /\ req[p].arg \in DOMAIN items
             /\ items[req[p].arg].status = "pending"]_vars

\* exactly one of stock_id and service is set in a bill_items row
ClaimOneOf(row) == (row.stock_id # NoId) # (row.service # NoText)

\* C18: every BillItem has exactly one of stock_id and service set: the row
\* createBill writes for a request item with a service label has stock_id
\* NULL and that label, also when the request item carries a stock_id; the
\* row for an item without a label has the item's non-null stock_id and a
\* NULL service; and every row of bill_items keeps exactly one of the two.
C18_StockIdXorService ==
  [][/\ \A p \in Procs :
          (/\ req[p].kind = "createBill"
           /\ req[p].pc \in {"item", "update"}
           /\ nextItemId \in DOMAIN req'[p].txItems)
          => LET it == req[p].items[req[p].idx]
                 row == req'[p].txItems[nextItemId]
             IN IF it.service # NoText
                THEN row.stock_id = NoId /\ row.service = it.service
                ELSE /\ row.stock_id = it.stock_id
                     /\ row.stock_id # NoId
                     /\ row.service = NoText
     /\ \A i \in DOMAIN items' : ClaimOneOf(items'[i])]_vars

\* C18 witness: bill_items holds a row made from {service: 'Dressing',
\* stock_id: 5}, stored without the stock_id, and a row made from a catalog
\* item, stored without a service
C18_Witness ==
  \E i, j \in DOMAIN items :
    /\ items[i].service = "Dressing" /\ items[i].stock_id = NoId
    /\ items[j].service = NoText /\ items[j].stock_id = 6

\* C19: however removeBillItem requests naming the same catalog item
\* interleave, the item's quantity is added to its stock row at most once.
C19_ReleasedOnce ==
  \A i \in DOMAIN pre : pre[i].released <= 1

\* C20: whatever runs between a confirm's SELECT and its UPDATE, the bill
\* items the confirm marks confirmed under its new bill_id are exactly the
\* ones it summed into the Bill's total, and they are at least one.
C20_ConfirmMarksWhatItSummed ==
  [][\A p \in Procs :
       Steps(p, "confirm", "c_update")
       => LET marked == { i \in DOMAIN items' :
                            /\ items'[i].bill_id = req[p].bill_id
                            /\ items'[i].status = "confirmed" }
          IN marked = req[p].sel /\ marked # {}]_vars

\* C21: stock amounts move in the stated directions only, whatever the
\* quantities of the request: no step of a createBill raises an amount, no
\* step of a removeBillItem lowers one, and no step of any other handler
\* changes one.
C21_StockDirections ==
  [][\A p \in Procs :
       req'[p] # req[p]
       => LET k == IF req[p].pc \in {"idle", "done"} THEN req'[p].kind
                   ELSE req[p].kind
          IN IF k = "createBill"
             THEN \A s \in StockIds : stock'[s] <= stock[s]
             ELSE IF k = "removeBillItem"
             THEN \A s \in StockIds : stock'[s] >= stock[s]
             ELSE stock' = stock]_vars

\* sum of quantity over the bill items ids of its
RECURSIVE ClaimQuantity(_, _)
ClaimQuantity(its, ids) ==
  IF ids = {} THEN 0
  ELSE LET i == CHOOSE x \in ids : TRUE
       IN its[i].quantity + ClaimQuantity(its, ids \ {i})

\* C22: between requests handled one at a time, for every stock row the
\* amount plus the quantities of the existing bill items (pending or
\* confirmed) that reference the row is the row's initial amount.
C22_StockConservation ==
  req[1].pc \in {"idle", "done"}
  => \A s \in StockIds :
       stock[s] + ClaimQuantity(items, { i \in DOMAIN items : items[i].stock_id = s })
       = InitAmount[s]

\* C23: every request gets exactly one response: a handler that has
\* returned has called res.json exactly once.
C23_OneResponse ==
  \A p \in Procs : req[p].pc = "done" => Len(req[p].sent) = 1

\* the numerically largest orderid of an expense table, 0 for an empty one
ClaimLargestOrderId(exp) ==
  IF DOMAIN exp = {} THEN 0
  ELSE LET i == CHOOSE x \in DOMAIN exp :
                  \A j \in DOMAIN exp : exp[x].orderid >= exp[j].orderid
       IN exp[i].orderid

\* C24: every successful createExpense stores an orderid one more than the
\* numerically largest orderid of the table (1 on an empty table), and no two
\* expense rows share an orderid, with ten or more rows and for every
\* interleaving of createExpense requests.
C24_OrderIdsUnique ==
  [][/\ \A p \in Procs :
          (Steps(p, "createExpense", "e_insert") /\ req'[p].resp.status = 200)
          => expense'[nextExpenseId].orderid = ClaimLargestOrderId(expense) + 1
     /\ \A i, j \in DOMAIN expense' :
          i # j => expense'[i].orderid # expense'[j].orderid]_vars

====
